---- MODULE Spec2Model ----
(***************************************************************************)
(* Pickup dispatch core of the smart waste bin backend: the pickup         *)
(* lifecycle (PickupService), the scheduler's automatic pickup creation    *)
(* (PickupSchedulerService) and the writers of bins and drivers they read. *)
(* The store (Prisma) is modelled as three tables: bins, drivers, pickups. *)
(***************************************************************************)
EXTENDS Integers, Sequences, FiniteSets, TLC

VARIABLES
    bins,       \* bin table: id -> [currentLevel, status, lastEmptied, isActive]
    drivers,    \* driver table: id -> [status, isAvailable, userActive, located, pos, phone]
    pickups,    \* pickup table: sequence of rows, the row's index is its id
    now,        \* the clock read by new Date(), in minutes
    last,       \* the last call served and what it returned
    autoRun,    \* pickups created by the last scheduler run and by the run before it
    calls,      \* updatePickupStatus calls in flight, each between two store accesses
    routes,     \* route table: sequence of rows, the row's index is its id
    stops,      \* route stop table: sequence of rows, the row's index is its id
    notices     \* notifications the last scheduler scan handed to the notification service

vars == <<bins, drivers, pickups, now, last, autoRun, calls, routes, stops, notices>>

\* ---------------------------------------------------------------- bounds
MaxPickups == 1        \* pickups of the lifecycle specification
MaxAutoPickups == 2    \* pickups of the scheduler specification
MaxCreated == 1        \* pickups of the creation specification
MaxCalls == 1          \* updatePickupStatus calls in flight at once
MaxTime == 2           \* readings of the clock
MaxStops == 3          \* pickups of the route optimization specification
MaxRoutes == 1         \* routes of the route optimization specification
MaxScanPickups == 2    \* pickups of the scheduler scan specification

\* ---------------------------------------------------------------- values
NULL == "NULL"
UNDEF == "UNDEF"

Bins == {"b1", "b2"}
UnknownBin == "b9"
BinOrder == <<"b1", "b2">>
Drivers == {"d1", "d2", "d3"}
DriverOrder == <<"d1", "d2", "d3">>
UnknownPickup == 0
NoTime == 0

PickupStatus == {"SCHEDULED", "IN_PROGRESS", "COMPLETED", "CANCELLED"}
Priorities == {"LOW", "MEDIUM", "HIGH", "URGENT"}

\* users of the system: the owners of the bins, a driver's account, an admin
Requesters ==
    { [role |-> "USER", id |-> "u1"], [role |-> "USER", id |-> "u2"],
      [role |-> "DRIVER", id |-> "ud1"], [role |-> "ADMIN", id |-> "ua"] }

BinUserId == [b \in Bins |-> IF b = "b1" THEN "u1" ELSE "u2"]
\* coordinates: metres to the north along one meridian
BinPos == [b \in Bins |-> IF b = "b1" THEN 1000 ELSE 4000]
DriverUserId == [d \in Drivers |-> IF d = "d1" THEN "ud1" ELSE IF d = "d2" THEN "ud2" ELSE "ud3"]
DriverPos == [d \in Drivers |-> IF d = "d1" THEN 0 ELSE 3000]

\* a driver who is on line, available, located at pos, with an active account that
\* has a phone number
OnDuty(pos) ==
    [status |-> "ONLINE", isAvailable |-> TRUE, userActive |-> TRUE, located |-> TRUE,
     pos |-> pos, phone |-> TRUE]

\* levels the sensors report
FillLevels == {50, 90}

\* ---------------------------------------------------------------- helpers
\* binService.calculateBinStatus
calculateBinStatus(fillLevel) ==
    IF fillLevel <= 20 THEN "EMPTY"
    ELSE IF fillLevel <= 40 THEN "LOW"
    ELSE IF fillLevel <= 60 THEN "MEDIUM"
    ELSE IF fillLevel <= 80 THEN "HIGH"
    ELSE "FULL"

\* calculateDistance: the great-circle distance, in metres; between two points of
\* one meridian it is the length of the arc between them
calculateDistance(p, q) ==
    IF p >= q THEN p - q ELSE q - p

\* the rows of a table given as a sequence of ids, filtered
RECURSIVE SelectSeq2(_, _)
SelectSeq2(ids, keep) ==
    IF ids = <<>> THEN <<>>
    ELSE IF Head(ids) \in keep THEN <<Head(ids)>> \o SelectSeq2(Tail(ids), keep)
    ELSE SelectSeq2(Tail(ids), keep)

\* the where clause of findBestAvailableDriver
Eligible(row) ==
    row.status = "ONLINE" /\ row.isAvailable /\ row.located /\ row.userActive

\* the loop of findBestAvailableDriver: a strictly nearer driver replaces the closest
RECURSIVE ClosestLoop(_, _, _, _)
ClosestLoop(drv, rest, closest, pos) ==
    IF rest = <<>> THEN closest
    ELSE IF calculateDistance(pos, drv[Head(rest)].pos)
              < calculateDistance(pos, drv[closest].pos)
         THEN ClosestLoop(drv, Tail(rest), Head(rest), pos)
         ELSE ClosestLoop(drv, Tail(rest), closest, pos)

\* a locator that returns the first driver it scans
FindNearestFirstOnly(order, drv, pos) ==
    LET availableDrivers == SelectSeq2(order, {d \in Drivers : Eligible(drv[d])})
    IN  IF availableDrivers = <<>> THEN NULL ELSE Head(availableDrivers)

\* findBestAvailableDriver over the rows in the order the store returns them
FindNearest(order, drv, pos) ==
    LET availableDrivers == SelectSeq2(order, {d \in Drivers : Eligible(drv[d])})
    IN  IF availableDrivers = <<>> THEN NULL
        ELSE ClosestLoop(drv, Tail(availableDrivers), Head(availableDrivers), pos)

\* a lookup that finds nobody
findNobody(drv, pos) ==
    NULL

\* PickupService.findBestAvailableDriver
findBestAvailableDriver(drv, pos) ==
    FindNearest(DriverOrder, drv, pos)

\* getNearbyDrivers: the defaults of radius (km) and limit
DefaultRadiusKm == 10
DefaultLimit == 20

\* the bounding box of getNearbyDrivers: the latitude within radius/111 degrees,
\* one degree of latitude being 111.195 km of arc
InBox(pos, radiusKm, p) ==
    calculateDistance(pos, p) * 111000 <= radiusKm * 1000 * 111195

\* Math.round(distance * 100) / 100 of a distance in km, kept in metres
Round2(m) == ((m + 5) \div 10) * 10

\* Array.prototype.sort on the reported distance: a stable insertion
RECURSIVE InsertByDistance(_, _)
InsertByDistance(sorted, x) ==
    IF sorted = <<>> THEN <<x>>
    ELSE IF Head(sorted).distance <= x.distance
         THEN <<Head(sorted)>> \o InsertByDistance(Tail(sorted), x)
         ELSE <<x>> \o sorted

RECURSIVE SortByDistance(_)
SortByDistance(rows) ==
    IF rows = <<>> THEN <<>>
    ELSE InsertByDistance(SortByDistance(SubSeq(rows, 1, Len(rows) - 1)), rows[Len(rows)])

\* `query.radius || 10`, `query.limit || 20`: a number not given, or 0, is the default
OrDefault(given, default) == IF given = 0 THEN default ELSE given

\* DriverService.getNearbyDrivers over the rows in the order the store returns them
NearbyDrivers(order, drv, pos, radius, limit, status) ==
    LET radiusKm == OrDefault(radius, DefaultRadiusKm)
        take == OrDefault(limit, DefaultLimit)
        wanted == IF status = UNDEF THEN "ONLINE" ELSE status
        found == SelectSeq2(order,
                     {d \in Drivers :
                         /\ drv[d].isAvailable /\ drv[d].userActive /\ drv[d].located
                         /\ drv[d].status = wanted
                         /\ InBox(pos, radiusKm, drv[d].pos)})
        taken == SubSeq(found, 1, IF Len(found) < take THEN Len(found) ELSE take)
        driversWithDistance ==
            [i \in 1 .. Len(taken) |->
                [id |-> taken[i],
                 distance |-> Round2(calculateDistance(pos, drv[taken[i]].pos))]]
        Within(row) == row.distance <= radiusKm * 1000
    IN  SortByDistance(SelectSeq(driversWithDistance, Within))

\* the thresholds compared with > in place of >=
DerivePriorityStrict(currentLevel, supplied) ==
    IF currentLevel > 95 THEN "URGENT"
    ELSE IF currentLevel > 85 THEN "HIGH"
    ELSE IF supplied = UNDEF THEN "MEDIUM" ELSE supplied

\* priority of createPickup: the bin level overrides what the requester supplied
DerivePriority(currentLevel, supplied) ==
    IF currentLevel >= 95 THEN "URGENT"
    ELSE IF currentLevel >= 85 THEN "HIGH"
    ELSE IF supplied = UNDEF THEN "MEDIUM" ELSE supplied

\* the driver check of updatePickup and createPickup
DriverUnavailable(drv, driverId) ==
    /\ driverId # UNDEF
    /\ (driverId \notin Drivers \/ ~drv[driverId].userActive \/ ~drv[driverId].isAvailable)

\* the permission check of createPickup
CreateForbidden(role, userId, binId) ==
    role = "USER" /\ BinUserId[binId] # userId

\* the priority column of a pickup row that no write has set
NoPriority == "NONE"

\* PickupService.calculateScheduledTime, in minutes
calculateScheduledTime(t, priority) ==
    IF priority = "URGENT" THEN t + 30
    ELSE IF priority = "HIGH" THEN t + 120
    ELSE IF priority = "LOW" THEN t + 1440
    ELSE t + 240

\* PickupService.createPickup as a function of the store and the clock it reads:
\* the error it throws, or the row it inserts and the priority it reports (the
\* request gives no scheduledAt)
CreateResult(bn, drv, binId, driverId, priority, notes, role, userId, t) ==
    IF binId \notin Bins
    THEN [err |-> "NotFound", row |-> NULL, priority |-> NULL]
    ELSE IF CreateForbidden(role, userId, binId)
    THEN [err |-> "Forbidden", row |-> NULL, priority |-> NULL]
    ELSE IF DriverUnavailable(drv, driverId)
    THEN [err |-> "InvalidState", row |-> NULL, priority |-> NULL]
    ELSE
      LET currentLevel == bn[binId].currentLevel
          assignedDriverId ==
              IF driverId = UNDEF /\ currentLevel >= 80
              THEN findBestAvailableDriver(drv, BinPos[binId])
              ELSE IF driverId = UNDEF THEN NULL ELSE driverId
      IN  [err |-> "OK",
           row |-> [binId |-> binId, driverId |-> assignedDriverId,
                    createdById |-> userId, status |-> "SCHEDULED",
                    startedAt |-> NoTime, completedAt |-> NoTime,
                    notes |-> IF notes = UNDEF THEN NULL ELSE notes,
                    scheduledAt |->
                        calculateScheduledTime(t, DerivePriority(currentLevel, priority)),
                    priority |-> NoPriority],
           priority |-> DerivePriority(currentLevel, priority)]

\* PickupService.getPickupById: the error it throws for this requester, or OK
getPickupById(ps, pickupId, req) ==
    IF pickupId \notin DOMAIN ps THEN "NotFound"
    ELSE IF req.role = "USER" /\ ps[pickupId].createdById # req.id THEN "Forbidden"
    ELSE IF req.role = "DRIVER"
            /\ ~\E d \in Drivers : DriverUserId[d] = req.id /\ ps[pickupId].driverId = d
         THEN "Forbidden"
    ELSE "OK"

NoRun == [created |-> {}, before |-> {}]

\* the record of a served call: the operation, the pickup it names, its argument,
\* the error it threw (or OK) and the pickup's status before it
Served(op, pid, arg, err, prev) ==
    [op |-> op, pid |-> pid, arg |-> arg, err |-> err, prev |-> prev,
     priority |-> NULL, binId |-> NULL, role |-> NULL, by |-> NULL]

\* the record of a served createPickup: the request, and the priority it reported
ServedCreate(pid, binId, priority, req, r) ==
    [op |-> "Create", pid |-> pid, arg |-> priority, err |-> r.err, prev |-> NULL,
     priority |-> r.priority, binId |-> binId, role |-> req.role, by |-> req.id]

\* the record of a served query: what was asked and what was returned
ServedQuery(op, query, result) ==
    [op |-> op, err |-> "OK", query |-> query, result |-> result]

\* ---------------------------------------------------------------- initial state
Init ==
    /\ bins = [b \in Bins |->
                  [currentLevel |-> IF b = "b1" THEN 90 ELSE 50,
                   status |-> calculateBinStatus(IF b = "b1" THEN 90 ELSE 50),
                   lastEmptied |-> NoTime, isActive |-> TRUE]]
    /\ drivers = [d \in Drivers |-> OnDuty(DriverPos[d])]
    /\ pickups = <<>>
    /\ now = 1
    /\ last = Served("none", UnknownPickup, NULL, "OK", NULL)
    /\ autoRun = NoRun
    /\ calls = <<>>
    /\ routes = <<>>
    /\ stops = <<>>
    /\ notices = <<>>

\* ---------------------------------------------------------------- operations
\* PickupService.createPickup
CreatePickup(binId, driverId, priority, notes, req) ==
    LET r == CreateResult(bins, drivers, binId, driverId, priority, notes,
                          req.role, req.id, now)
    IN  /\ pickups' = IF r.err = "OK" THEN Append(pickups, r.row) ELSE pickups
        /\ last' = ServedCreate(IF r.err = "OK" THEN Len(pickups) + 1
                                 ELSE UnknownPickup,
                                 binId, priority, req, r)
        /\ autoRun' = NoRun
        /\ UNCHANGED <<routes, stops, notices, bins, drivers, now, calls>>

\* an optional field of the data of a prisma update: undefined fields are absent
Opt(name, given, value) == IF given THEN name :> value ELSE <<>>

Field(data, name, old) == IF name \in DOMAIN data THEN data[name] ELSE old

\* prisma.pickup.update: a field given as undefined is left as it is
UpdatePickupRow(row, data) ==
    [binId |-> row.binId,
     driverId |-> Field(data, "driverId", row.driverId),
     createdById |-> row.createdById,
     status |-> Field(data, "status", row.status),
     startedAt |-> Field(data, "startedAt", row.startedAt),
     completedAt |-> Field(data, "completedAt", row.completedAt),
     notes |-> Field(data, "notes", row.notes),
     scheduledAt |-> row.scheduledAt,
     priority |-> Field(data, "priority", row.priority)]

\* prisma.bin.update
UpdateBinRow(row, data) ==
    [currentLevel |-> Field(data, "currentLevel", row.currentLevel),
     status |-> Field(data, "status", row.status),
     lastEmptied |-> Field(data, "lastEmptied", row.lastEmptied),
     isActive |-> Field(data, "isActive", row.isActive)]

\* the start stamped on every transition to IN_PROGRESS
StampsStartAlways(existing, status) ==
    status = "IN_PROGRESS"

\* updatePickupStatus stamps the start the first time the pickup goes IN_PROGRESS
StampsStart(existing, status) ==
    status = "IN_PROGRESS" /\ existing.startedAt = NoTime

\* updatePickupStatus stamps the completion, and empties the bin, the first time
\* the pickup goes COMPLETED
StampsCompletion(existing, status) ==
    ~StampsStart(existing, status)
    /\ status = "COMPLETED" /\ existing.completedAt = NoTime

\* the fields updatePickupStatus writes to the pickup row, from the row it read
StatusUpdateData(existing, status, notes, t) ==
    ("status" :> status)
    @@ Opt("notes", notes # UNDEF, notes)
    @@ Opt("startedAt", StampsStart(existing, status), t)
    @@ Opt("completedAt", StampsCompletion(existing, status), t)

\* the level reset without the status
BinEmptiedLevelOnly(t) == [currentLevel |-> 0, lastEmptied |-> t]

\* the write of updatePickupStatus and markBinEmptied to the bin row
BinEmptied(t) == [currentLevel |-> 0, status |-> "EMPTY", lastEmptied |-> t]

\* PickupService.updatePickupStatus
UpdatePickupStatus(pickupId, status, notes, req) ==
    LET err == getPickupById(pickups, pickupId, req)
    IN  IF err # "OK"
        THEN /\ last' = Served("Transition", pickupId, NULL, err, NULL)
             /\ autoRun' = NoRun
             /\ UNCHANGED <<routes, stops, notices, bins, drivers, pickups, now, calls>>
        ELSE
          LET existing == pickups[pickupId]
              updateData == StatusUpdateData(existing, status, notes, now)
          IN  /\ (StampsStart(existing, status) \/ StampsCompletion(existing, status)) => now <= MaxTime
              /\ bins' = IF StampsCompletion(existing, status)
                         THEN [bins EXCEPT ![existing.binId] =
                                   UpdateBinRow(@, BinEmptied(now))]
                         ELSE bins
              /\ pickups' = [pickups EXCEPT ![pickupId] = UpdatePickupRow(@, updateData)]
              /\ now' = IF (StampsStart(existing, status) \/ StampsCompletion(existing, status)) THEN now + 1 ELSE now
              /\ last' = Served("Transition", pickupId, status, "OK", existing.status)
              /\ autoRun' = NoRun
              /\ UNCHANGED <<routes, stops, notices, drivers, calls>>

\* PickupService.updatePickup
UpdatePickup(pickupId, driverId, notes, status, req) ==
    LET err0 == getPickupById(pickups, pickupId, req)
        err == IF err0 # "OK" THEN err0
               ELSE IF DriverUnavailable(drivers, driverId) THEN "InvalidState"
               ELSE "OK"
    IN  /\ pickups' = IF err = "OK"
                      THEN [pickups EXCEPT ![pickupId] =
                               UpdatePickupRow(@,
                                   Opt("driverId", driverId # UNDEF, driverId)
                                   @@ Opt("notes", notes # UNDEF, notes)
                                   @@ Opt("status", status # UNDEF, status))]
                      ELSE pickups
        /\ last' = Served("Update", pickupId, IF err = "OK" THEN status ELSE NULL, err,
                          NULL)
        /\ autoRun' = NoRun
        /\ UNCHANGED <<routes, stops, notices, bins, drivers, now, calls>>

\* no pickup is refused
CancelRefusedNever(existing) ==
    FALSE

\* cancelPickup refuses a completed pickup
CancelRefused(existing) ==
    existing.status = "COMPLETED"

\* PickupService.cancelPickup
CancelPickup(pickupId, reason, req) ==
    LET err0 == getPickupById(pickups, pickupId, req)
        err == IF err0 # "OK" THEN err0
               ELSE IF CancelRefused(pickups[pickupId]) THEN "InvalidState"
               ELSE "OK"
    IN  /\ pickups' = IF err = "OK"
                      THEN [pickups EXCEPT ![pickupId] =
                               UpdatePickupRow(@, [status |-> "CANCELLED", notes |-> reason])]
                      ELSE pickups
        /\ last' = Served("Cancel", pickupId, reason, err,
                          IF err0 = "OK" THEN pickups[pickupId].status ELSE NULL)
        /\ autoRun' = NoRun
        /\ UNCHANGED <<routes, stops, notices, bins, drivers, now, calls>>

\* the query without its filter on pending pickups
FullBinsAnyPickups(bn, ps) ==
    SelectSeq2(BinOrder, {b \in Bins : bn[b].currentLevel >= 80 /\ bn[b].isActive})

\* the query with a filter on SCHEDULED pickups alone
FullBinsScheduledOnly(bn, ps) ==
    SelectSeq2(BinOrder,
        {b \in Bins :
            /\ bn[b].currentLevel >= 80
            /\ bn[b].isActive
            /\ ~\E i \in DOMAIN ps : ps[i].binId = b /\ ps[i].status = "SCHEDULED"})

\* the query of checkAndCreateAutomaticPickups
FullBins(bn, ps) ==
    SelectSeq2(BinOrder,
        {b \in Bins :
            /\ bn[b].currentLevel >= 80
            /\ bn[b].isActive
            /\ ~\E i \in DOMAIN ps :
                   ps[i].binId = b /\ ps[i].status \in {"SCHEDULED", "IN_PROGRESS"}})

\* the priority checkAndCreateAutomaticPickups passes to createPickup
AutoPriority(currentLevel) ==
    IF currentLevel >= 95 THEN "URGENT" ELSE "HIGH"

\* the createPickup call of checkAndCreateAutomaticPickups for one bin found; for the
\* bins of `failing` the store refuses the insert and createPickup throws
AutoCreateItem(bn, drv, bin, t, failing) ==
    IF bin \in failing
    THEN [err |-> "StoreError", row |-> NULL, priority |-> NULL]
    ELSE CreateResult(bn, drv, bin, UNDEF, AutoPriority(bn[bin].currentLevel),
                      "auto", "ADMIN", BinUserId[bin], t)

\* the loop of checkAndCreateAutomaticPickups: one createPickup per bin found,
\* an error of one is caught and the loop goes on
RECURSIVE AutoCreateLoop(_, _, _, _, _, _)
AutoCreateLoop(fullBins, bn, drv, ps, t, failing) ==
    IF fullBins = <<>> THEN ps
    ELSE LET r == AutoCreateItem(bn, drv, Head(fullBins), t, failing)
         IN  AutoCreateLoop(Tail(fullBins), bn, drv,
                            IF r.err = "OK" THEN Append(ps, r.row) ELSE ps, t, failing)

\* what the createPickup calls of one run returned: for every bin found, the error
\* thrown or the priority reported
AutoCreateReports(fullBins, bn, drv, t, failing) ==
    [i \in 1 .. Len(fullBins) |->
        LET r == AutoCreateItem(bn, drv, fullBins[i], t, failing)
        IN  [binId |-> fullBins[i], err |-> r.err, priority |-> r.priority]]

\* the record of a served run of the automatic creation
ServedAuto(reports) ==
    [op |-> "AutoCreate", pid |-> UnknownPickup, arg |-> NULL, err |-> "OK",
     prev |-> NULL, priority |-> NULL, binId |-> NULL, role |-> NULL, by |-> NULL,
     created |-> reports]

\* one run of checkAndCreateAutomaticPickups in which the store refuses the inserts
\* for the bins of `failing`
AutoCreateRun(failing) ==
    LET fullBins == FullBins(bins, pickups)
    IN  /\ pickups' = AutoCreateLoop(fullBins, bins, drivers, pickups, now, failing)
        /\ autoRun' = [created |-> (DOMAIN pickups') \ (DOMAIN pickups),
                       before |-> autoRun.created]
        /\ last' = ServedAuto(AutoCreateReports(fullBins, bins, drivers, now, failing))
        /\ UNCHANGED <<routes, stops, notices, bins, drivers, now, calls>>

\* PickupSchedulerService.checkAndCreateAutomaticPickups, one run of the timer
CheckAndCreateAutomaticPickups ==
    AutoCreateRun({})

\* the write of updateSensorData to the bin row, one transaction
SensorWrite(binId, fillLevel) ==
    /\ bins' = [bins EXCEPT ![binId] =
                   UpdateBinRow(@, [currentLevel |-> fillLevel,
                                    status |-> calculateBinStatus(fillLevel)])]
    /\ last' = Served("Telemetry", UnknownPickup, NULL, "OK", NULL)
    /\ autoRun' = NoRun
    /\ UNCHANGED <<routes, stops, notices, drivers, pickups, now>>

\* BinService.updateSensorData
UpdateSensorData(binId, fillLevel) ==
    /\ SensorWrite(binId, fillLevel)
    /\ UNCHANGED <<routes, stops, notices, calls>>

\* ---------------------------------------------------------------- reads
\* PickupService.formatPickupResponse: the fields of the row, and the priority the
\* caller passes
formatPickupResponse(ps, id, priority) ==
    [id |-> id, status |-> ps[id].status, priority |-> priority,
     scheduledAt |-> ps[id].scheduledAt, startedAt |-> ps[id].startedAt,
     completedAt |-> ps[id].completedAt, notes |-> ps[id].notes]

\* the where clause getPickups builds from the requester's role
Listed(ps, id, req) ==
    IF req.role = "USER" THEN ps[id].createdById = req.id
    ELSE IF req.role = "DRIVER" /\ \E d \in Drivers : DriverUserId[d] = req.id
    THEN \E d \in Drivers : DriverUserId[d] = req.id /\ ps[id].driverId = d
    ELSE TRUE

\* orderBy scheduledAt asc, createdAt desc: a later row goes before the rows
\* scheduled at the same time
RECURSIVE InsertBySchedule(_, _, _)
InsertBySchedule(ps, sorted, id) ==
    IF sorted = <<>> THEN <<id>>
    ELSE IF ps[Head(sorted)].scheduledAt < ps[id].scheduledAt
         THEN <<Head(sorted)>> \o InsertBySchedule(ps, Tail(sorted), id)
         ELSE <<id>> \o sorted

RECURSIVE SortBySchedule(_, _)
SortBySchedule(ps, n) ==
    IF n = 0 THEN <<>> ELSE InsertBySchedule(ps, SortBySchedule(ps, n - 1), n)

\* PickupService.getPickupById
ReadPickup(pickupId, req) ==
    LET err == getPickupById(pickups, pickupId, req)
    IN  /\ last' = [op |-> "GetById", err |-> err,
                    query |-> [pickupId |-> pickupId, req |-> req],
                    result |-> IF err = "OK"
                               THEN formatPickupResponse(pickups, pickupId, "MEDIUM")
                               ELSE NULL]
        /\ UNCHANGED <<bins, drivers, pickups, now, autoRun, calls, routes, stops,
                       notices>>

\* PickupService.getPickups without filters, first page
ListPickups(req) ==
    LET Visible(id) == Listed(pickups, id, req)
        found == SelectSeq(SortBySchedule(pickups, Len(pickups)), Visible)
    IN  /\ last' = ServedQuery("List", [req |-> req],
                                [i \in 1 .. Len(found) |->
                                    formatPickupResponse(pickups, found[i], "MEDIUM")])
        /\ UNCHANGED <<bins, drivers, pickups, now, autoRun, calls, routes, stops,
                       notices>>

\* ---------------------------------------------------------------- routes
\* the element optimizePickupRoute makes of a pickup: its id, its bin, the bin's
\* coordinate
StopOf(ps, id) ==
    [pickupId |-> id, binId |-> ps[id].binId, pos |-> BinPos[ps[id].binId]]

\* a for loop in which a stop that is as near replaces the nearest
RECURSIVE NearestIndexLoopLast(_, _, _, _)
NearestIndexLoopLast(remaining, currentLocation, i, nearestIndex) ==
    IF i > Len(remaining) THEN nearestIndex
    ELSE IF calculateDistance(currentLocation, remaining[i].pos)
              <= calculateDistance(currentLocation, remaining[nearestIndex].pos)
         THEN NearestIndexLoopLast(remaining, currentLocation, i + 1, i)
         ELSE NearestIndexLoopLast(remaining, currentLocation, i + 1, nearestIndex)

\* the for loop of nearestNeighborOptimization: a strictly nearer stop replaces the
\* nearest
RECURSIVE NearestIndexLoop(_, _, _, _)
NearestIndexLoop(remaining, currentLocation, i, nearestIndex) ==
    IF i > Len(remaining) THEN nearestIndex
    ELSE IF calculateDistance(currentLocation, remaining[i].pos)
              < calculateDistance(currentLocation, remaining[nearestIndex].pos)
         THEN NearestIndexLoop(remaining, currentLocation, i + 1, i)
         ELSE NearestIndexLoop(remaining, currentLocation, i + 1, nearestIndex)

\* remaining.splice(nearestIndex, 1)
Splice(remaining, i) ==
    SubSeq(remaining, 1, i - 1) \o SubSeq(remaining, i + 1, Len(remaining))

\* the while loop of nearestNeighborOptimization: each turn moves one stop from
\* remaining to optimized
RECURSIVE NearestNeighborLoop(_, _, _)
NearestNeighborLoop(optimized, remaining, currentLocation) ==
    IF remaining = <<>> THEN optimized
    ELSE LET nearestIndex == NearestIndexLoop(remaining, currentLocation, 2, 1)
         IN  NearestNeighborLoop(Append(optimized, remaining[nearestIndex]),
                                 Splice(remaining, nearestIndex),
                                 remaining[nearestIndex].pos)

\* a heuristic that stops after the nearest stop
nearestOnly(startLocation, input) ==
    IF input = <<>> THEN <<>>
    ELSE <<input[NearestIndexLoop(input, startLocation, 2, 1)]>>

\* RouteOptimizationService.nearestNeighborOptimization
nearestNeighborOptimization(startLocation, input) ==
    NearestNeighborLoop(<<>>, input, startLocation)

\* the start coordinate optimizePickupRoute takes when the driver has no location
DefaultStart == 8484

\* what GoogleMapsService.getRoute does with the answer of the directions service:
\* it throws on a status other than OK, on a failed request and on an answer
\* without routes or legs; otherwise it returns the route, with the steps of its
\* first leg or without steps
MapsFailures == {"ERROR_STATUS", "THROWN", "MALFORMED"}

MapsAnswers ==
    {[kind |-> k, steps |-> 0] : k \in MapsFailures \cup {"OK_NO_STEPS"}}
    \cup {[kind |-> "OK", steps |-> n] : n \in 0 .. MaxStops + 1}

\* a getRoute that returns whatever the directions service answered
getRouteNeverThrows(maps) ==
    FALSE

\* GoogleMapsService.getRoute throws
getRouteThrows(maps) ==
    maps.kind \in MapsFailures

\* optimizePickupRoute falls back when getRoute throws, and when the answer has more
\* steps than there are pickups (pickups[i] is undefined)
FallsBack(maps, n) ==
    getRouteThrows(maps) \/ (maps.kind = "OK" /\ maps.steps > n)

\* the pickups the primary path keeps: one per step of the answer, or all of them
\* when the answer has no steps
PrimaryOrder(found, maps) ==
    IF maps.kind = "OK_NO_STEPS" THEN found ELSE SubSeq(found, 1, maps.steps)

\* the update that leaves the pickups' drivers as they are
AssignNobody(ps, pickupIds, driverId) ==
    ps

\* prisma.pickup.updateMany of optimizePickupRoute: every pickup named in pickupIds
AssignRoute(ps, pickupIds, driverId) ==
    [id \in DOMAIN ps |->
        IF id \in pickupIds THEN UpdatePickupRow(ps[id], [driverId |-> driverId])
        ELSE ps[id]]

\* RouteOptimizationService.optimizePickupRoute as a function of the store it reads
\* and of the answer of the directions service: the error it throws, or the path it
\* took and the sequence it persists
OptimizeResult(ps, drv, driverId, pickupIds, start, maps) ==
    LET ids == [i \in 1 .. Len(ps) |-> i]
        Wanted(id) == id \in pickupIds /\ ps[id].status = "SCHEDULED"
        scheduled == SelectSeq(ids, Wanted)
        found == [i \in 1 .. Len(scheduled) |-> StopOf(ps, scheduled[i])]
    IN  IF driverId \notin Drivers
        THEN [err |-> "NotFound", path |-> NULL, optimized |-> <<>>]
        ELSE IF found = <<>>
        THEN [err |-> "InvalidState", path |-> NULL, optimized |-> <<>>]
        ELSE
          LET startLocation ==
                  IF start # <<>> THEN start[1]
                  ELSE IF drv[driverId].located THEN drv[driverId].pos
                  ELSE DefaultStart
          IN  IF Len(found) = 1
              THEN [err |-> "OK", path |-> "single", optimized |-> found]
              ELSE IF FallsBack(maps, Len(found))
              THEN [err |-> "OK", path |-> "fallback",
                    optimized |-> nearestNeighborOptimization(startLocation, found)]
              ELSE [err |-> "OK", path |-> "primary",
                    optimized |-> PrimaryOrder(found, maps)]

\* the record of a served optimizePickupRoute: the request, the OptimizedRoute it
\* returned or the error it threw, and the pickups' drivers before the call
ServedOptimize(driverId, pickupIds, start, maps, r, routeId) ==
    [op |-> "Optimize", err |-> r.err,
     prev |-> [id \in DOMAIN pickups |-> pickups[id].driverId],
     query |-> [driverId |-> driverId, pickupIds |-> pickupIds, start |-> start,
                maps |-> maps],
     result |-> [routeId |-> routeId, path |-> r.path,
                 pickups |-> [i \in 1 .. Len(r.optimized) |->
                                 [pickupId |-> r.optimized[i].pickupId, order |-> i]]]]

\* RouteOptimizationService.optimizePickupRoute
OptimizePickupRoute(driverId, pickupIds, start, maps) ==
    LET r == OptimizeResult(pickups, drivers, driverId, pickupIds, start, maps)
        routeId == Len(routes) + 1
    IN  IF r.err # "OK"
        THEN /\ last' = ServedOptimize(driverId, pickupIds, start, maps, r, 0)
             /\ UNCHANGED <<bins, drivers, pickups, now, autoRun, calls, routes, stops,
                            notices>>
        ELSE /\ routes' = Append(routes, [driverId |-> driverId, status |-> "PLANNED",
                                          completedAt |-> NoTime])
             /\ stops' = stops \o
                            [i \in 1 .. Len(r.optimized) |->
                                [routeId |-> routeId, binId |-> r.optimized[i].binId,
                                 stopOrder |-> i, status |-> "SCHEDULED"]]
             /\ pickups' = AssignRoute(pickups, pickupIds, driverId)
             /\ last' = ServedOptimize(driverId, pickupIds, start, maps, r, routeId)
             /\ UNCHANGED <<bins, drivers, now, autoRun, calls, notices>>

\* the stops of a route
StopsOf(st, routeId) == {i \in DOMAIN st : st[i].routeId = routeId}

\* RouteOptimizationService.updateRouteProgress: the stop is updated, then the route
\* named in the call is read with its stops and completed when every one is COMPLETED
UpdateRouteProgress(routeId, stopId, status) ==
    IF stopId \notin DOMAIN stops
    THEN /\ last' = Served("AdvanceStop", stopId, status, "NotFound", NULL)
         /\ UNCHANGED <<bins, drivers, pickups, now, autoRun, calls, routes, stops,
                        notices>>
    ELSE /\ stops' = [stops EXCEPT ![stopId].status = status]
         /\ routes' = IF /\ routeId \in DOMAIN routes
                         /\ \A i \in StopsOf(stops', routeId) :
                                stops'[i].status = "COMPLETED"
                      THEN [routes EXCEPT ![routeId] =
                               [@ EXCEPT !.status = "COMPLETED", !.completedAt = now]]
                      ELSE routes
         /\ last' = Served("AdvanceStop", stopId, status, "OK", stops[stopId].status)
         /\ UNCHANGED <<bins, drivers, pickups, now, autoRun, calls, notices>>

\* updateRouteProgress as the store sees it: the write to the stop, the read of the
\* route with its stops, the write to the route; other calls run between any two of
\* them
NewProgress(routeId, stopId, status) ==
    [routeId |-> routeId, stopId |-> stopId, status |-> status, pc |-> "begun",
     sawAll |-> FALSE]

\* a test that finds no route complete
EveryStopNever(st, routeId) ==
    FALSE

\* route.stops.every(stop => stop.status === COMPLETED)
EveryStopCompleted(st, routeId) ==
    \A i \in StopsOf(st, routeId) : st[i].status = "COMPLETED"

\* lines 338-344: prisma.routeStop.update
WriteStop(c) ==
    /\ calls[c].pc = "begun"
    /\ stops' = [stops EXCEPT ![calls[c].stopId].status = calls[c].status]
    /\ calls' = [calls EXCEPT ![c].pc = "stopWritten"]
    /\ UNCHANGED <<bins, drivers, pickups, now, last, autoRun, routes, notices>>

\* lines 347-354: prisma.route.findUnique with the stops, and the test on them
ReadRoute(c) ==
    /\ calls[c].pc = "stopWritten"
    /\ calls' = [calls EXCEPT ![c] =
                    [@ EXCEPT !.pc = "routeRead",
                              !.sawAll = /\ calls[c].routeId \in DOMAIN routes
                                         /\ EveryStopCompleted(stops, calls[c].routeId)]]
    /\ UNCHANGED <<bins, drivers, pickups, now, last, autoRun, routes, stops, notices>>

\* lines 354-369: prisma.route.update when every stop read was COMPLETED, the call
\* returns
WriteRoute(c) ==
    /\ calls[c].pc = "routeRead"
    /\ routes' = IF calls[c].sawAll
                 THEN [routes EXCEPT ![calls[c].routeId] =
                          [@ EXCEPT !.status = "COMPLETED", !.completedAt = now]]
                 ELSE routes
    /\ calls' = [calls EXCEPT ![c].pc = "done"]
    /\ last' = Served("AdvanceStop", calls[c].stopId, calls[c].status, "OK", NULL)
    /\ UNCHANGED <<bins, drivers, pickups, now, autoRun, stops, notices>>

\* ---------------------------------------------------------------- scheduler scans
\* the where clause of sendPickupReminders
ReminderDue(row, t) ==
    /\ row.status = "SCHEDULED"
    /\ row.scheduledAt >= t /\ row.scheduledAt <= t + 15
    /\ row.driverId # NULL

\* the where clause of checkOverduePickups
Overdue(row, t) ==
    /\ row.status = "SCHEDULED"
    /\ row.scheduledAt < t - 30
    /\ row.driverId # NULL

\* `if (pickup.driver?.user.phone)`: the scans notify a driver who has a phone number
HasPhone(drv, row) ==
    drv[row.driverId].phone

\* PickupSchedulerService.sendPickupReminders
SendPickupReminders ==
    LET ids == [i \in 1 .. Len(pickups) |-> i]
        Found(id) == ReminderDue(pickups[id], now)
        Notified(id) == HasPhone(drivers, pickups[id])
        upcomingPickups == SelectSeq(ids, Found)
        notified == SelectSeq(upcomingPickups, Notified)
    IN  /\ notices' = [i \in 1 .. Len(notified) |->
                          [kind |-> "reminder", pickupId |-> notified[i], minutes |-> 0]]
        /\ last' = Served("ReminderScan", UnknownPickup, NULL, "OK", NULL)
        /\ UNCHANGED <<bins, drivers, pickups, now, autoRun, calls, routes, stops>>

\* the items a loop without a try of its own gets through: those before the first
\* for which the store write throws
RECURSIVE Until(_, _)
Until(items, failing) ==
    IF items = <<>> \/ Head(items) \in failing THEN <<>>
    ELSE <<Head(items)>> \o Until(Tail(items), failing)

\* the record of a served overdue scan, with the pickups whose update the store
\* refused
ServedScan(op, failing) ==
    [op |-> op, pid |-> UnknownPickup, arg |-> NULL, err |-> "OK",
     prev |-> NULL, priority |-> NULL, binId |-> NULL, role |-> NULL, by |-> NULL,
     failing |-> failing]

\* one run of checkOverduePickups in which prisma.pickup.update throws for the
\* pickups of `failing`: the exception leaves the loop and is logged by the catch of
\* the run
OverdueRun(failing) ==
    LET ids == [i \in 1 .. Len(pickups) |-> i]
        Found(id) == Overdue(pickups[id], now)
        Notified(id) == HasPhone(drivers, pickups[id])
        overduePickups == SelectSeq(ids, Found)
        processed == Until(overduePickups, failing)
        notified == SelectSeq(processed, Notified)
    IN  /\ pickups' = [id \in DOMAIN pickups |->
                          IF \E i \in DOMAIN processed : processed[i] = id
                          THEN UpdatePickupRow(pickups[id], [priority |-> "URGENT"])
                          ELSE pickups[id]]
        /\ notices' = [i \in 1 .. Len(notified) |->
                          [kind |-> "overdue", pickupId |-> notified[i],
                           minutes |-> now - pickups[notified[i]].scheduledAt]]
        /\ last' = ServedScan("OverdueScan", failing)
        /\ UNCHANGED <<bins, drivers, now, autoRun, calls, routes, stops>>

\* PickupSchedulerService.checkOverduePickups
CheckOverduePickups ==
    OverdueRun({})

\* ---------------------------------------------------------------- store steps
\* updatePickupStatus as the store sees it: the read of getPickupById, the write to
\* the bin, the write to the pickup; other calls run between any two of them

\* a call after its read: the row it read, the time it stamps (when it has read
\* the clock), the writes it has applied, and whether the sensor of its bin has
\* reported since the call began
NewCall(pickupId, status, notes, existing) ==
    [pickupId |-> pickupId, status |-> status, notes |-> notes, existing |-> existing,
     pc |-> "read", t |-> NoTime, wroteBin |-> FALSE, wrotePickup |-> FALSE,
     touched |-> FALSE]

\* lines 688-693: getPickupById, then the update data is begun
BeginStatusUpdate(pickupId, status, notes, req) ==
    /\ getPickupById(pickups, pickupId, req) = "OK"
    /\ calls' = Append(calls, NewCall(pickupId, status, notes, pickups[pickupId]))
    /\ UNCHANGED <<routes, stops, notices, bins, drivers, pickups, now, last, autoRun>>

\* lines 698-709: the completion is stamped and prisma.bin.update empties the bin
WriteBin(c) ==
    LET call == calls[c]
    IN  /\ call.pc = "read"
        /\ StampsCompletion(call.existing, call.status)
        /\ now <= MaxTime
        /\ bins' = [bins EXCEPT ![call.existing.binId] = UpdateBinRow(@, BinEmptied(now))]
        /\ now' = now + 1
        /\ calls' = [calls EXCEPT ![c] =
                        [call EXCEPT !.pc = "binWritten", !.t = now, !.wroteBin = TRUE]]
        /\ UNCHANGED <<routes, stops, notices, drivers, pickups, last, autoRun>>

\* lines 712-720: prisma.pickup.update writes the update data, the call returns
WritePickup(c) ==
    LET call == calls[c]
        stamps == StampsStart(call.existing, call.status)
        t == IF stamps THEN now ELSE call.t
    IN  /\ \/ call.pc = "read" /\ ~StampsCompletion(call.existing, call.status)
           \/ call.pc = "binWritten"
        /\ stamps => now <= MaxTime
        /\ pickups' = [pickups EXCEPT ![call.pickupId] =
                          UpdatePickupRow(@, StatusUpdateData(call.existing, call.status,
                                                              call.notes, t))]
        /\ now' = IF stamps THEN now + 1 ELSE now
        /\ calls' = [calls EXCEPT ![c] =
                        [call EXCEPT !.pc = "done", !.t = t, !.wrotePickup = TRUE]]
        /\ last' = Served("Transition", call.pickupId, call.status, "OK",
                          call.existing.status)
        /\ autoRun' = NoRun
        /\ UNCHANGED <<routes, stops, notices, bins, drivers>>

\* lines 721-723: a store access throws, or the process stops, before the call is done
FailCall(c) ==
    /\ calls[c].pc \in {"read", "binWritten"}
    /\ calls' = [calls EXCEPT ![c].pc = "failed"]
    /\ UNCHANGED <<routes, stops, notices, bins, drivers, pickups, now, last, autoRun>>

\* the caller has its answer: the call is over
ReturnCall(c) ==
    /\ calls[c].pc \in {"done", "failed"}
    /\ calls' = SubSeq(calls, 1, c - 1) \o SubSeq(calls, c + 1, Len(calls))
    /\ UNCHANGED <<routes, stops, notices, bins, drivers, pickups, now, last, autoRun>>

\* cancelPickup as the store sees it: the read of getPickupById with the check of the
\* status it read, then the write to the pickup
BeginCancel(pickupId, reason, req) ==
    /\ getPickupById(pickups, pickupId, req) = "OK"
    /\ IF CancelRefused(pickups[pickupId])
       THEN /\ last' = Served("Cancel", pickupId, reason, "InvalidState",
                               pickups[pickupId].status)
            /\ UNCHANGED calls
       ELSE /\ calls' = Append(calls, [NewCall(pickupId, "CANCELLED", reason,
                                                pickups[pickupId])
                                           EXCEPT !.pc = "checked"])
            /\ UNCHANGED last
    /\ UNCHANGED <<routes, stops, notices, bins, drivers, pickups, now, autoRun>>

\* prisma.pickup.update of cancelPickup, the call returns
WriteCancel(c) ==
    LET call == calls[c]
    IN  /\ call.pc = "checked"
        /\ pickups' = [pickups EXCEPT ![call.pickupId] =
                          UpdatePickupRow(@, [status |-> "CANCELLED",
                                              notes |-> call.notes])]
        /\ calls' = [calls EXCEPT ![c] = [call EXCEPT !.pc = "done", !.wrotePickup = TRUE]]
        /\ last' = Served("Cancel", call.pickupId, call.notes, "OK", call.existing.status)
        /\ autoRun' = NoRun
        /\ UNCHANGED <<routes, stops, notices, bins, drivers, now>>

\* updateSensorData while calls are in flight
SensorWriteDuringCalls(binId, fillLevel) ==
    /\ SensorWrite(binId, fillLevel)
    /\ calls' = [c \in DOMAIN calls |->
                    IF calls[c].existing.binId = binId
                    THEN [calls[c] EXCEPT !.touched = TRUE] ELSE calls[c]]

\* BinService.updateBin, by a requester who may see the bin
UpdateBin(binId, isActive) ==
    /\ bins' = [bins EXCEPT ![binId] = UpdateBinRow(@, [isActive |-> isActive])]
    /\ last' = Served("UpdateBin", UnknownPickup, NULL, "OK", NULL)
    /\ autoRun' = NoRun
    /\ UNCHANGED <<routes, stops, notices, drivers, pickups, now, calls>>

\* ---------------------------------------------------------------- specifications
\* the pickup lifecycle: the pickups of bin b1, created by its owner, moved and
\* cancelled by every user of the system, updated by the admin
Owner == [role |-> "USER", id |-> "u1"]
Admin == [role |-> "ADMIN", id |-> "ua"]

PickupIds == UnknownPickup .. MaxPickups

Create ==
    /\ Len(pickups) < MaxPickups
    /\ CreatePickup("b1", UNDEF, UNDEF, UNDEF, Owner)

Transition ==
    \E pickupId \in PickupIds, status \in PickupStatus, req \in Requesters :
        UpdatePickupStatus(pickupId, status, UNDEF, req)

Update ==
    \E pickupId \in PickupIds, status \in PickupStatus \cup {UNDEF} :
        UpdatePickup(pickupId, UNDEF, UNDEF, status, Admin)

Cancel ==
    \E pickupId \in PickupIds, req \in Requesters :
        CancelPickup(pickupId, "reason", req)

Next ==
    \/ Create
    \/ Transition
    \/ Update
    \/ Cancel

Spec == Init /\ [][Next]_vars

\* the scheduler's automatic creation next to an admin's manual creation for the
\* full bin b1, while the sensor of bin b2 reports, bin b2 is switched on and off
\* and the admin starts and cancels pickups
AutoRun ==
    /\ Len(pickups) + Len(FullBins(bins, pickups)) <= MaxAutoPickups
    /\ CheckAndCreateAutomaticPickups

ManualCreate ==
    /\ Len(pickups) < MaxAutoPickups
    /\ CreatePickup("b1", UNDEF, UNDEF, UNDEF, Admin)

Start ==
    \E pickupId \in DOMAIN pickups :
        UpdatePickupStatus(pickupId, "IN_PROGRESS", UNDEF, Admin)

AdminCancel ==
    \E pickupId \in DOMAIN pickups : CancelPickup(pickupId, "reason", Admin)

Sensor ==
    \E fillLevel \in FillLevels : UpdateSensorData("b2", fillLevel)

Activate ==
    \E isActive \in BOOLEAN : UpdateBin("b2", isActive)

NextAuto ==
    \/ AutoRun
    \/ ManualCreate
    \/ Start
    \/ AdminCancel
    \/ Sensor
    \/ Activate

SpecAuto == Init /\ [][NextAuto]_vars

\* the store steps of the admin's status updates of a scheduled pickup of bin b1,
\* next to the reports of the bin's sensor
InitSteps ==
    /\ bins = [b \in Bins |->
                  [currentLevel |-> IF b = "b1" THEN 90 ELSE 50,
                   status |-> calculateBinStatus(IF b = "b1" THEN 90 ELSE 50),
                   lastEmptied |-> NoTime, isActive |-> TRUE]]
    /\ drivers = [d \in Drivers |-> OnDuty(DriverPos[d])]
    /\ now = 1
    /\ pickups = <<CreateResult(bins, drivers, "b1", UNDEF, UNDEF, UNDEF,
                                Owner.role, Owner.id, now).row>>
    /\ last = Served("none", UnknownPickup, NULL, "OK", NULL)
    /\ autoRun = NoRun
    /\ calls = <<>>
    /\ routes = <<>>
    /\ stops = <<>>
    /\ notices = <<>>

StepBegin ==
    /\ Len(calls) < MaxCalls
    /\ \E pickupId \in DOMAIN pickups, status \in {"IN_PROGRESS", "COMPLETED"} :
           BeginStatusUpdate(pickupId, status, UNDEF, Admin)

StepWriteBin == \E c \in DOMAIN calls : WriteBin(c)

StepWritePickup == \E c \in DOMAIN calls : WritePickup(c)

StepFail == \E c \in DOMAIN calls : FailCall(c)

StepReturn == \E c \in DOMAIN calls : ReturnCall(c)

StepSensor == \E fillLevel \in FillLevels : SensorWriteDuringCalls("b1", fillLevel)

NextSteps ==
    \/ StepBegin
    \/ StepWriteBin
    \/ StepWritePickup
    \/ StepFail
    \/ StepReturn
    \/ StepSensor

SpecSteps == InitSteps /\ [][NextSteps]_vars

\* a cancellation and a completion of the same scheduled pickup of bin b1, each as
\* its store accesses, in every order
InFlight(status) ==
    Cardinality({c \in DOMAIN calls : calls[c].status = status})

RaceBeginComplete ==
    /\ InFlight("COMPLETED") < MaxCalls
    /\ \E pickupId \in DOMAIN pickups :
           BeginStatusUpdate(pickupId, "COMPLETED", UNDEF, Admin)

RaceBeginCancel ==
    /\ InFlight("CANCELLED") < MaxCalls
    /\ \E pickupId \in DOMAIN pickups : BeginCancel(pickupId, "reason", Admin)

RaceWriteCancel == \E c \in DOMAIN calls : WriteCancel(c)

NextRace ==
    \/ RaceBeginComplete
    \/ RaceBeginCancel
    \/ StepWriteBin
    \/ StepWritePickup
    \/ RaceWriteCancel
    \/ StepReturn

SpecRace == InitSteps /\ [][NextRace]_vars

\* pickup creation alone, for every request, from the fill levels of bin b1 around
\* the levels at which createPickup changes its answer
UnknownDriver == "d9"

CreateLevels == {0, 50} \cup (79 .. 100)

InitCreate ==
    /\ \E level \in CreateLevels :
          bins = [b \in Bins |->
                     [currentLevel |-> IF b = "b1" THEN level ELSE 50,
                      status |-> calculateBinStatus(IF b = "b1" THEN level ELSE 50),
                      lastEmptied |-> NoTime, isActive |-> TRUE]]
    /\ drivers = [d \in Drivers |-> OnDuty(DriverPos[d])]
    /\ pickups = <<>>
    /\ now = 1
    /\ last = Served("none", UnknownPickup, NULL, "OK", NULL)
    /\ autoRun = NoRun
    /\ calls = <<>>
    /\ routes = <<>>
    /\ stops = <<>>
    /\ notices = <<>>

CreateAny ==
    /\ Len(pickups) < MaxCreated
    /\ \E binId \in {"b1", UnknownBin}, driverId \in {UNDEF, "d2", UnknownDriver},
          priority \in Priorities \cup {UNDEF}, req \in Requesters :
           CreatePickup(binId, driverId, priority, UNDEF, req)

NextCreate == CreateAny

SpecCreate == InitCreate /\ [][NextCreate]_vars

\* the driver locator over every fleet: each driver on duty at one of the places,
\* or off line, unavailable, without a location, or with a closed account; a radius
\* or limit of 0 stands for one the query does not give
Places == {0, 9996, 10004, 10010}
QueryPlaces == {0, 10000}

DriverRows ==
    {OnDuty(p) : p \in Places}
    \cup {[OnDuty(0) EXCEPT !.status = "OFFLINE"], [OnDuty(0) EXCEPT !.isAvailable = FALSE],
          [OnDuty(0) EXCEPT !.located = FALSE], [OnDuty(0) EXCEPT !.userActive = FALSE]}

\* the orders in which the store may return the driver rows
ScanOrders ==
    {o \in [1 .. Cardinality(Drivers) -> Drivers] : \A d \in Drivers : \E i \in DOMAIN o : o[i] = d}

InitLocator ==
    /\ bins = [b \in Bins |->
                  [currentLevel |-> IF b = "b1" THEN 90 ELSE 50,
                   status |-> calculateBinStatus(IF b = "b1" THEN 90 ELSE 50),
                   lastEmptied |-> NoTime, isActive |-> TRUE]]
    /\ drivers \in [Drivers -> DriverRows]
    /\ pickups = <<>>
    /\ now = 1
    /\ last = Served("none", UnknownPickup, NULL, "OK", NULL)
    /\ autoRun = NoRun
    /\ calls = <<>>
    /\ routes = <<>>
    /\ stops = <<>>
    /\ notices = <<>>

LocateNearest ==
    \E order \in ScanOrders, pos \in QueryPlaces :
        /\ last' = ServedQuery("FindNearest", [pos |-> pos, order |-> order],
                                FindNearest(order, drivers, pos))
        /\ UNCHANGED <<bins, drivers, pickups, now, autoRun, calls, routes, stops, notices>>

LocateWithinRadius ==
    \E pos \in QueryPlaces, radius \in {0, 5}, limit \in {0, 1, 2},
       status \in {UNDEF, "OFFLINE"} :
        /\ last' = ServedQuery("FindWithinRadius",
                                [pos |-> pos, order |-> DriverOrder, radius |-> radius,
                                 limit |-> limit, status |-> status],
                                NearbyDrivers(DriverOrder, drivers, pos, radius, limit,
                                              status))
        /\ UNCHANGED <<bins, drivers, pickups, now, autoRun, calls, routes, stops, notices>>

NextLocator ==
    \/ LocateNearest
    \/ LocateWithinRadius

SpecLocator == InitLocator /\ [][NextLocator]_vars

\* pickup creation without a driver, for a bin just below and at the level of
\* automatic assignment, over every fleet
InitAssign ==
    /\ \E level \in {79, 80} :
          bins = [b \in Bins |->
                     [currentLevel |-> IF b = "b1" THEN level ELSE 50,
                      status |-> calculateBinStatus(IF b = "b1" THEN level ELSE 50),
                      lastEmptied |-> NoTime, isActive |-> TRUE]]
    /\ drivers \in [Drivers -> DriverRows]
    /\ pickups = <<>>
    /\ now = 1
    /\ last = Served("none", UnknownPickup, NULL, "OK", NULL)
    /\ autoRun = NoRun
    /\ calls = <<>>
    /\ routes = <<>>
    /\ stops = <<>>
    /\ notices = <<>>

CreateWithoutDriver ==
    /\ Len(pickups) < MaxCreated
    /\ \E req \in {Owner, Admin} : CreatePickup("b1", UNDEF, UNDEF, UNDEF, req)

NextAssign == CreateWithoutDriver

SpecAssign == InitAssign /\ [][NextAssign]_vars

\* the scheduler's automatic creation next to a manual creation without a priority,
\* from the fill levels of bin b1 around the levels at which the priority changes,
\* with bin b2 below and above the scheduler's threshold
InitPriority ==
    /\ \E level \in CreateLevels, other \in {50, 82} :
          bins = [b \in Bins |->
                     [currentLevel |-> IF b = "b1" THEN level ELSE other,
                      status |-> calculateBinStatus(IF b = "b1" THEN level ELSE other),
                      lastEmptied |-> NoTime, isActive |-> TRUE]]
    /\ drivers = [d \in Drivers |-> OnDuty(DriverPos[d])]
    /\ pickups = <<>>
    /\ now = 1
    /\ last = Served("none", UnknownPickup, NULL, "OK", NULL)
    /\ autoRun = NoRun
    /\ calls = <<>>
    /\ routes = <<>>
    /\ stops = <<>>
    /\ notices = <<>>

NextPriority ==
    \/ AutoRun
    \/ ManualCreate

SpecPriority == InitPriority /\ [][NextPriority]_vars

\* a stored pickup that no operation has touched since it was created
PickupRow(binId, driverId, status, scheduledAt) ==
    [binId |-> binId, driverId |-> driverId, createdById |-> Owner.id,
     status |-> status, startedAt |-> NoTime, completedAt |-> NoTime,
     notes |-> NULL, scheduledAt |-> scheduledAt, priority |-> NoPriority]

\* route optimization, over every table of pickups that are scheduled without a
\* driver, scheduled for another driver, or completed
OptimizeRows ==
    {PickupRow("b1", NULL, "SCHEDULED", 1), PickupRow("b2", NULL, "SCHEDULED", 1),
     PickupRow("b1", "d2", "SCHEDULED", 1), PickupRow("b2", "d2", "COMPLETED", 1)}

InitOptimize ==
    /\ bins = [b \in Bins |->
                  [currentLevel |-> 90, status |-> calculateBinStatus(90),
                   lastEmptied |-> NoTime, isActive |-> TRUE]]
    /\ drivers = [d \in Drivers |-> OnDuty(DriverPos[d])]
    /\ pickups \in [1 .. MaxStops -> OptimizeRows]
    /\ now = 1
    /\ last = Served("none", UnknownPickup, NULL, "OK", NULL)
    /\ autoRun = NoRun
    /\ calls = <<>>
    /\ routes = <<>>
    /\ stops = <<>>
    /\ notices = <<>>

\* a refused call leaves the store as it was, so no call is taken after one
Optimize ==
    /\ Len(routes) < MaxRoutes
    /\ last.err = "OK"
    /\ \E driverId \in {"d1", UnknownDriver},
          pickupIds \in {1 .. Len(pickups), 2 .. Len(pickups)},
          start \in {<<>>, <<5000>>},
          maps \in MapsAnswers :
          OptimizePickupRoute(driverId, pickupIds, start, maps)

NextOptimize == Optimize

SpecOptimize == InitOptimize /\ [][NextOptimize]_vars

\* optimizePickupRoute around its request to the directions service: the request is
\* sent, the service answers or does not, the call goes on with the answer. The code
\* sets no timeout on `fetch`; whether the runtime's fetch gives up on its own
\* depends on the runtime, so a call is begun under either kind
BeginRouteRequest ==
    /\ calls = <<>> /\ routes = <<>>
    /\ \E pickupIds \in {1 .. Len(pickups), 2 .. Len(pickups)},
          start \in {<<>>, <<5000>>},
          fetchGivesUp \in BOOLEAN :
          /\ Cardinality({id \in pickupIds : pickups[id].status = "SCHEDULED"}) > 1
          /\ calls' = <<[driverId |-> "d1", pickupIds |-> pickupIds, start |-> start,
                         fetchGivesUp |-> fetchGivesUp, pc |-> "waiting",
                         answer |-> NULL]>>
    /\ UNCHANGED <<bins, drivers, pickups, now, last, autoRun, routes, stops, notices>>

\* the directions service answers, or the connection fails
MapsReplies ==
    /\ calls # <<>> /\ calls[1].pc = "waiting"
    /\ \E maps \in MapsAnswers :
          calls' = [calls EXCEPT ![1] = [@ EXCEPT !.pc = "answered", !.answer = maps]]
    /\ UNCHANGED <<bins, drivers, pickups, now, last, autoRun, routes, stops, notices>>

\* a runtime whose fetch gives up rejects the pending request
FetchGivesUp ==
    /\ calls # <<>> /\ calls[1].pc = "waiting" /\ calls[1].fetchGivesUp
    /\ calls' = [calls EXCEPT ![1] = [@ EXCEPT !.pc = "answered",
                                               !.answer = [kind |-> "THROWN", steps |-> 0]]]
    /\ UNCHANGED <<bins, drivers, pickups, now, last, autoRun, routes, stops, notices>>

\* the call goes on after `await googleMapsService.getRoute(...)` and returns
FinishRouteRequest ==
    /\ calls # <<>> /\ calls[1].pc = "answered" /\ last.op # "Optimize"
    /\ OptimizePickupRoute(calls[1].driverId, calls[1].pickupIds, calls[1].start,
                           calls[1].answer)

NextWait ==
    \/ BeginRouteRequest
    \/ MapsReplies
    \/ FetchGivesUp
    \/ FinishRouteRequest

\* the program takes its own steps; nothing obliges the directions service to answer
SpecWait ==
    /\ InitOptimize /\ [][NextWait]_vars
    /\ WF_vars(FetchGivesUp) /\ WF_vars(FinishRouteRequest)

\* progress reports on two planned routes, the first with two stops and the second
\* with one
InitAdvance ==
    /\ bins = [b \in Bins |->
                  [currentLevel |-> 90, status |-> calculateBinStatus(90),
                   lastEmptied |-> NoTime, isActive |-> TRUE]]
    /\ drivers = [d \in Drivers |-> OnDuty(DriverPos[d])]
    /\ pickups = <<>>
    /\ now = 1
    /\ last = Served("none", UnknownPickup, NULL, "OK", NULL)
    /\ autoRun = NoRun
    /\ calls = <<>>
    /\ routes = [r \in 1 .. 2 |->
                    [driverId |-> "d1", status |-> "PLANNED", completedAt |-> NoTime]]
    /\ stops = <<[routeId |-> 1, binId |-> "b1", stopOrder |-> 1, status |-> "SCHEDULED"],
                 [routeId |-> 1, binId |-> "b2", stopOrder |-> 2, status |-> "SCHEDULED"],
                 [routeId |-> 2, binId |-> "b1", stopOrder |-> 1, status |-> "SCHEDULED"]>>
    /\ notices = <<>>

AdvanceStop ==
    \E routeId \in 1 .. Len(routes) + 1,
       stopId \in 1 .. Len(stops) + 1,
       status \in PickupStatus :
       UpdateRouteProgress(routeId, stopId, status)

NextAdvance == AdvanceStop

SpecAdvance == InitAdvance /\ [][NextAdvance]_vars

\* progress reports that complete the open stops of a route of three stops, one call
\* per stop, each as its store accesses, in every order
InitProgress ==
    /\ bins = [b \in Bins |->
                  [currentLevel |-> 90, status |-> calculateBinStatus(90),
                   lastEmptied |-> NoTime, isActive |-> TRUE]]
    /\ drivers = [d \in Drivers |-> OnDuty(DriverPos[d])]
    /\ pickups = <<>>
    /\ now = 1
    /\ last = Served("none", UnknownPickup, NULL, "OK", NULL)
    /\ autoRun = NoRun
    /\ calls = <<>>
    /\ routes = <<[driverId |-> "d1", status |-> "PLANNED", completedAt |-> NoTime]>>
    /\ \E open \in [1 .. 2 -> {"SCHEDULED", "IN_PROGRESS"}],
          third \in {"SCHEDULED", "COMPLETED"} :
          stops = [i \in 1 .. 3 |->
                      [routeId |-> 1, binId |-> IF i = 2 THEN "b2" ELSE "b1",
                       stopOrder |-> i,
                       status |-> IF i = 3 THEN third ELSE open[i]]]
    /\ notices = <<>>

ProgressBegin ==
    /\ Len(calls) <= MaxCalls
    /\ \E stopId \in DOMAIN stops :
          /\ stops[stopId].status # "COMPLETED"
          /\ \A c \in DOMAIN calls : calls[c].stopId # stopId
          /\ calls' = Append(calls, NewProgress(1, stopId, "COMPLETED"))
    /\ UNCHANGED <<bins, drivers, pickups, now, last, autoRun, routes, stops, notices>>

ProgressWriteStop == \E c \in DOMAIN calls : WriteStop(c)

ProgressReadRoute == \E c \in DOMAIN calls : ReadRoute(c)

ProgressWriteRoute == \E c \in DOMAIN calls : WriteRoute(c)

NextProgress ==
    \/ ProgressBegin
    \/ ProgressWriteStop
    \/ ProgressReadRoute
    \/ ProgressWriteRoute

SpecProgress == InitProgress /\ [][NextProgress]_vars

\* the scheduler's scans at one instant, over every table of pickups scheduled
\* around the edges of the two windows; driver d2 has no phone number
ScanTime == 50

ScanTimes ==
    {ScanTime - 31, ScanTime - 30, ScanTime - 1, ScanTime, ScanTime + 15, ScanTime + 16}

ScanRows ==
    {PickupRow("b1", d, st, t) :
        d \in {NULL, "d1", "d2"}, st \in {"SCHEDULED", "IN_PROGRESS"}, t \in ScanTimes}

InitScan ==
    /\ bins = [b \in Bins |->
                  [currentLevel |-> 90, status |-> calculateBinStatus(90),
                   lastEmptied |-> NoTime, isActive |-> TRUE]]
    /\ drivers = [d \in Drivers |->
                     [OnDuty(DriverPos[d]) EXCEPT !.phone = (d # "d2")]]
    /\ pickups \in [1 .. MaxScanPickups -> ScanRows]
    /\ now = ScanTime
    /\ last = Served("none", UnknownPickup, NULL, "OK", NULL)
    /\ autoRun = NoRun
    /\ calls = <<>>
    /\ routes = <<>>
    /\ stops = <<>>
    /\ notices = <<>>

ReminderScan == SendPickupReminders

OverdueScan == CheckOverduePickups

NextScan ==
    \/ ReminderScan
    \/ OverdueScan

SpecScan == InitScan /\ [][NextScan]_vars

\* creation and overdue escalation followed by reads: bin b1 at a level of each
\* priority band, no pickup yet or one pickup of driver d1 that is overdue or due
InitRead ==
    /\ \E level \in {50, 90, 96} :
          bins = [b \in Bins |->
                     [currentLevel |-> IF b = "b1" THEN level ELSE 50,
                      status |-> calculateBinStatus(IF b = "b1" THEN level ELSE 50),
                      lastEmptied |-> NoTime, isActive |-> TRUE]]
    /\ drivers = [d \in Drivers |-> OnDuty(DriverPos[d])]
    /\ pickups \in {<<>>} \cup {<<PickupRow("b1", "d1", "SCHEDULED", t)>> :
                                    t \in {ScanTime - 31, ScanTime}}
    /\ now = ScanTime
    /\ last = Served("none", UnknownPickup, NULL, "OK", NULL)
    /\ autoRun = NoRun
    /\ calls = <<>>
    /\ routes = <<>>
    /\ stops = <<>>
    /\ notices = <<>>

CreateToRead ==
    /\ Len(pickups) <= MaxCreated
    /\ \E priority \in Priorities \cup {UNDEF} :
          CreatePickup("b1", UNDEF, priority, UNDEF, Owner)

ReadById ==
    \E pickupId \in 1 .. Len(pickups) + 1, req \in Requesters :
        ReadPickup(pickupId, req)

List ==
    \E req \in Requesters : ListPickups(req)

NextRead ==
    \/ CreateToRead
    \/ OverdueScan
    \/ ReadById
    \/ List

SpecRead == InitRead /\ [][NextRead]_vars

\* the scheduler's three loops when the store refuses some of their writes, over
\* tables of finished, overdue and upcoming pickups of bin b1, with both bins full
BatchRows ==
    {PickupRow("b1", "d1", "COMPLETED", ScanTime - 31)}
    \cup {PickupRow("b1", d, "SCHEDULED", t) :
             d \in {"d1", "d2"}, t \in {ScanTime - 31, ScanTime}}

InitBatch ==
    /\ bins = [b \in Bins |->
                  [currentLevel |-> 90, status |-> calculateBinStatus(90),
                   lastEmptied |-> NoTime, isActive |-> TRUE]]
    /\ drivers = [d \in Drivers |->
                     [OnDuty(DriverPos[d]) EXCEPT !.phone = (d # "d2")]]
    /\ pickups \in [1 .. MaxScanPickups -> BatchRows]
    /\ now = ScanTime
    /\ last = Served("none", UnknownPickup, NULL, "OK", NULL)
    /\ autoRun = NoRun
    /\ calls = <<>>
    /\ routes = <<>>
    /\ stops = <<>>
    /\ notices = <<>>

AutoRunFailing ==
    \E failing \in SUBSET Bins : AutoCreateRun(failing)

OverdueScanFailing ==
    \E failing \in SUBSET DOMAIN pickups : OverdueRun(failing)

NextBatch ==
    \/ AutoRunFailing
    \/ OverdueScanFailing
    \/ ReminderScan

SpecBatch == InitBatch /\ [][NextBatch]_vars

\* ---------------------------------------------------------------- properties
\* the call just served reached this pickup (it exists and the requester may see it)
Reached(op, p) ==
    last'.op = op /\ last'.pid = p /\ last'.err \notin {"NotFound", "Forbidden"}

\* C1: once a pickup is COMPLETED or CANCELLED, a Transition to any other status
\* fails with InvalidState and leaves the pickup's status unchanged
C1_TerminalIsFinal ==
    [][\A p \in DOMAIN pickups :
          (pickups[p].status \in {"COMPLETED", "CANCELLED"} /\ Reached("Transition", p)
           /\ last'.arg # pickups[p].status)
          => (last'.err = "InvalidState" /\ pickups'[p].status = pickups[p].status)]_vars

\* C2: every change of a pickup's status follows one of the edges
\* SCHEDULED->IN_PROGRESS, IN_PROGRESS->COMPLETED, SCHEDULED->CANCELLED,
\* IN_PROGRESS->CANCELLED
C2_ForwardOnly ==
    [][\A p \in DOMAIN pickups :
          pickups'[p].status # pickups[p].status
          => <<pickups[p].status, pickups'[p].status>> \in
                 { <<"SCHEDULED", "IN_PROGRESS">>, <<"IN_PROGRESS", "COMPLETED">>,
                   <<"SCHEDULED", "CANCELLED">>, <<"IN_PROGRESS", "CANCELLED">> }]_vars

\* C7: Cancel of a COMPLETED pickup fails with InvalidState and leaves status and
\* notes unchanged; Cancel of any other pickup sets the status to CANCELLED and
\* the notes to the given reason
C7_CancelContract ==
    [][\A p \in DOMAIN pickups :
          Reached("Cancel", p)
          => IF pickups[p].status = "COMPLETED"
             THEN /\ last'.err = "InvalidState"
                  /\ pickups'[p].status = pickups[p].status
                  /\ pickups'[p].notes = pickups[p].notes
             ELSE /\ last'.err = "OK"
                  /\ pickups'[p].status = "CANCELLED"
                  /\ pickups'[p].notes = last'.arg]_vars

\* a Cancel of a COMPLETED pickup has been refused
C7_Witness ==
    /\ last.op = "Cancel" /\ last.err = "InvalidState"
    /\ last.pid \in DOMAIN pickups
    /\ pickups[last.pid].status = "COMPLETED"
    /\ pickups[last.pid].notes # last.arg

\* C8: the first Transition to IN_PROGRESS stamps the start time and the first
\* Transition to COMPLETED stamps the completion time; once stamped, neither
\* timestamp changes again, whatever is repeated later
C8_StampOnce ==
    [][\A p \in DOMAIN pickups :
          /\ pickups[p].startedAt # NoTime
             => pickups'[p].startedAt = pickups[p].startedAt
          /\ pickups[p].completedAt # NoTime
             => pickups'[p].completedAt = pickups[p].completedAt
          /\ (Reached("Transition", p) /\ last'.arg = "IN_PROGRESS"
              /\ pickups[p].startedAt = NoTime)
             => (pickups'[p].startedAt = now /\ now # NoTime)
          /\ (Reached("Transition", p) /\ last'.arg = "COMPLETED"
              /\ pickups[p].completedAt = NoTime)
             => (pickups'[p].completedAt = now /\ now # NoTime)]_vars

\* a Transition to COMPLETED has been repeated on a pickup that carries both stamps
C8_Witness ==
    /\ last.op = "Transition" /\ last.err = "OK"
    /\ last.arg = "COMPLETED" /\ last.prev = "COMPLETED"
    /\ pickups[last.pid].startedAt # NoTime
    /\ pickups[last.pid].completedAt # NoTime
    /\ pickups[last.pid].startedAt < pickups[last.pid].completedAt

C10_CreateGuards ==
    [][last'.op = "Create"
       => /\ last'.binId \notin Bins
             => (last'.err = "NotFound" /\ pickups' = pickups)
          /\ (last'.binId \in Bins /\ BinUserId[last'.binId] # last'.by
              /\ last'.role # "ADMIN")
             => (last'.err = "Forbidden" /\ pickups' = pickups)]_vars

\* the statuses the scheduler's query counts as pending
Active == {"SCHEDULED", "IN_PROGRESS"}

\* the pending pickups of a bin
ActivePickups(ps, b) == {p \in DOMAIN ps : ps[p].binId = b /\ ps[p].status \in Active}

\* C5 as claimed: in every reachable state each container has at most one pickup
\* whose status is SCHEDULED or IN_PROGRESS
C5_OneActivePerBin ==
    \A b \in Bins : Cardinality(ActivePickups(pickups, b)) <= 1

\* C5 as amended: a scheduler run creates at most one pickup per container, and
\* only for a container that had no SCHEDULED or IN_PROGRESS pickup when the run
\* queried the store
C5_AutoRunAddsNoDuplicate ==
    [][last'.op = "AutoCreate"
       => \A b \in Bins :
            LET created == {p \in (DOMAIN pickups') \ (DOMAIN pickups) :
                               pickups'[p].binId = b}
            IN  /\ Cardinality(created) <= 1
                /\ created # {} => ActivePickups(pickups, b) = {}]_vars

\* a run has created a pickup for one full bin and none for another full, active
\* bin whose pickup is IN_PROGRESS
C5_Witness ==
    /\ last.op = "AutoCreate" /\ autoRun.created # {}
    /\ \E b \in Bins :
          /\ bins[b].currentLevel >= 80 /\ bins[b].isActive
          /\ \A p \in autoRun.created : pickups[p].binId # b
          /\ \E p \in DOMAIN pickups :
                 pickups[p].binId = b /\ pickups[p].status = "IN_PROGRESS"

\* C6: two scheduler runs, one after the other with nothing in between, create at
\* most one pickup per container
C6_TwoRunsOnePickup ==
    last.op = "AutoCreate"
    => \A b \in Bins :
          Cardinality({p \in autoRun.created \cup autoRun.before :
                          pickups[p].binId = b}) <= 1

\* a second run has created nothing for a bin that is still full and active and
\* holds the pickup the first run created
C6_Witness ==
    /\ last.op = "AutoCreate" /\ autoRun.created = {}
    /\ \E p \in autoRun.before :
          /\ pickups[p].status = "SCHEDULED"
          /\ bins[pickups[p].binId].currentLevel >= 80
          /\ bins[pickups[p].binId].isActive

\* a call that stamps the completion: it writes the bin and then the pickup
Completes(call) == StampsCompletion(call.existing, call.status)

\* C3: the two writes of a completion are applied atomically: in no reachable
\* state, a failure between the writes included, has a call applied exactly one
C3_CompletionAtomic ==
    \A c \in DOMAIN calls :
        Completes(calls[c]) => (calls[c].wroteBin <=> calls[c].wrotePickup)

\* the bin row carries what the completion writes to it
BinIsEmptied(b) ==
    /\ bins[b].currentLevel = 0
    /\ bins[b].status = "EMPTY"
    /\ bins[b].lastEmptied # NoTime

EligibleDrivers(drv) == {d \in Drivers : Eligible(drv[d])}

\* the place of d in a scan order
PlaceIn(order, d) == CHOOSE i \in DOMAIN order : order[i] = d

\* C11: Create without an explicit driver gives the pickup the driver the locator
\* returns for the bin's coordinate when the level is >= 80, leaves it unassigned
\* when the locator finds nobody or the level is < 80, and always gives status
\* SCHEDULED
C11_AutoAssign ==
    (last.op = "Create" /\ last.err = "OK")
    => LET row == pickups[last.pid]
           level == bins[last.binId].currentLevel
           found == FindNearest(DriverOrder, drivers, BinPos[last.binId])
       IN  /\ row.status = "SCHEDULED"
           /\ level < 80 => row.driverId = NULL
           /\ level >= 80 => row.driverId = found
           /\ (level >= 80 /\ EligibleDrivers(drivers) = {}) => row.driverId = NULL
           /\ (level >= 80 /\ EligibleDrivers(drivers) # {})
              => row.driverId \in EligibleDrivers(drivers)

\* a Create at level 80 has succeeded with no eligible driver and left the pickup
\* unassigned
C11_Witness ==
    /\ last.op = "Create" /\ last.err = "OK"
    /\ bins[last.binId].currentLevel = 80
    /\ EligibleDrivers(drivers) = {}
    /\ \E d \in Drivers : drivers[d].status = "ONLINE" /\ ~drivers[d].isAvailable
    /\ pickups[last.pid].driverId = NULL /\ pickups[last.pid].status = "SCHEDULED"

\* C12: FindNearest returns an eligible driver at the least distance from the query
\* coordinate among the eligible drivers, in every scan order, the first scanned
\* of those at the least distance; and nobody, without error, when none is eligible
C12_NearestEligible ==
    last.op = "FindNearest"
    => LET elig == EligibleDrivers(drivers)
           dist(d) == calculateDistance(last.query.pos, drivers[d].pos)
           r == last.result
       IN  /\ last.err = "OK"
           /\ elig = {} => r = NULL
           /\ elig # {}
              => /\ r \in elig
                 /\ \A e \in elig : dist(r) <= dist(e)
                 /\ \A e \in elig :
                        dist(e) = dist(r)
                        => PlaceIn(last.query.order, r) <= PlaceIn(last.query.order, e)

\* the driver scanned last is the nearest, an ineligible driver first: the result
\* is the last one; two others tie and the first scanned of them is not returned
\* because the third is nearer
C12_Witness ==
    /\ last.op = "FindNearest" /\ last.result # NULL
    /\ PlaceIn(last.query.order, last.result) = Cardinality(Drivers)
    /\ Cardinality(EligibleDrivers(drivers)) = 2
    /\ \E e \in EligibleDrivers(drivers) :
          calculateDistance(last.query.pos, drivers[e].pos)
            > calculateDistance(last.query.pos, drivers[last.result].pos)

\* C13: every driver FindWithinRadius returns is eligible and truly within the
\* radius; the result holds at most limit drivers and is sorted by ascending
\* distance
C13_WithinRadius ==
    (last.op = "FindWithinRadius" /\ last.query.status = UNDEF)
    => LET q == last.query
           radiusKm == OrDefault(q.radius, DefaultRadiusKm)
           take == OrDefault(q.limit, DefaultLimit)
           r == last.result
       IN  /\ \A i \in DOMAIN r :
                 /\ Eligible(drivers[r[i].id])
                 /\ calculateDistance(q.pos, drivers[r[i].id].pos) <= radiusKm * 1000
           /\ Len(r) <= take
           /\ \A i, j \in DOMAIN r : i < j => r[i].distance <= r[j].distance
\* the pickups an optimizePickupRoute just served was asked for and found SCHEDULED
\* (the call leaves every status as it was)
Resolved ==
    {id \in last.query.pickupIds \cap DOMAIN pickups : pickups[id].status = "SCHEDULED"}

OptimizeServed ==
    last.op = "Optimize" /\ last.err = "OK"

\* C14: the sequence the nearest-neighbor fallback returns is a permutation of its
\* input stops: as long as the input, with every input pickup in it exactly once
C14_FallbackPermutation ==
    (OptimizeServed /\ last.result.path = "fallback")
    => /\ Len(last.result.pickups) = Cardinality(Resolved)
       /\ \A id \in Resolved :
             Cardinality({i \in DOMAIN last.result.pickups :
                             last.result.pickups[i].pickupId = id}) = 1

\* the fallback ordered three stops, and not in the order they were given
C14_Witness ==
    /\ OptimizeServed /\ last.result.path = "fallback"
    /\ Len(last.result.pickups) = 3
    /\ last.result.pickups[1].pickupId # 1

C16_OneStopPerPickup ==
    OptimizeServed
    => LET routeId == last.result.routeId
           n == Cardinality(Resolved)
       IN  /\ routeId = Len(routes)
           /\ routes[routeId].status = "PLANNED"
           /\ Len(last.result.pickups) = n
           /\ \A id \in Resolved :
                 \E i \in DOMAIN last.result.pickups :
                    last.result.pickups[i].pickupId = id
           /\ {stops[i].stopOrder : i \in StopsOf(stops, routeId)} = 1 .. n
           /\ Cardinality(StopsOf(stops, routeId)) = n
           /\ \A i \in StopsOf(stops, routeId) :
                 /\ stops[i].stopOrder \in DOMAIN last.result.pickups
                 /\ stops[i].binId =
                        pickups[last.result.pickups[stops[i].stopOrder].pickupId].binId

\* C17: after a successful optimizePickupRoute for a driver, every pickup placed in
\* the route refers to that driver, whatever driver it referred to before
C17_RoutePickupsReassigned ==
    OptimizeServed
    => \A i \in DOMAIN last.result.pickups :
          pickups[last.result.pickups[i].pickupId].driverId = last.query.driverId

\* a pickup of another driver was placed in the route
C17_Witness ==
    /\ OptimizeServed
    /\ \E i \in DOMAIN last.result.pickups :
          /\ last.prev[last.result.pickups[i].pickupId] = "d2"
          /\ pickups[last.result.pickups[i].pickupId].driverId = "d1"

\* C18: a route is COMPLETED with a completion time exactly when it has stops and
\* every one of them is COMPLETED
C18_CompletedIffAllStops ==
    \A r \in DOMAIN routes :
       (routes[r].status = "COMPLETED" /\ routes[r].completedAt # NoTime)
       <=> (/\ StopsOf(stops, r) # {}
            /\ \A i \in StopsOf(stops, r) : stops[i].status = "COMPLETED")

\* C19: a reminder scan sends exactly one reminder for every pickup that is
\* SCHEDULED, has a driver and is scheduled within the next 15 minutes, none for
\* any other pickup, and changes no pickup
C19_OneReminderEach ==
    [][last'.op = "ReminderScan"
       => /\ pickups' = pickups
          /\ \A id \in DOMAIN pickups :
                Cardinality({i \in DOMAIN notices' :
                                /\ notices'[i].kind = "reminder"
                                /\ notices'[i].pickupId = id})
                = IF /\ pickups[id].status = "SCHEDULED"
                     /\ pickups[id].driverId # NULL
                     /\ pickups[id].scheduledAt >= now
                     /\ pickups[id].scheduledAt <= now + 15
                  THEN 1 ELSE 0]_vars

\* C20: an overdue scan leaves every pickup that was SCHEDULED, had a driver and was
\* scheduled more than 30 minutes ago with priority URGENT and sends one overdue
\* notification with the minutes overdue for it; it changes the priority of no
\* other pickup
C20_OverdueEscalated ==
    [][last'.op = "OverdueScan"
       => \A id \in DOMAIN pickups :
             IF /\ pickups[id].status = "SCHEDULED"
                /\ pickups[id].driverId # NULL
                /\ pickups[id].scheduledAt < now - 30
             THEN /\ pickups'[id].priority = "URGENT"
                  /\ Cardinality({i \in DOMAIN notices' :
                                     /\ notices'[i].kind = "overdue"
                                     /\ notices'[i].pickupId = id
                                     /\ notices'[i].minutes
                                           = now - pickups[id].scheduledAt}) = 1
             ELSE pickups'[id].priority = pickups[id].priority]_vars

\* C22: when more than limit eligible drivers lie within the radius, FindWithinRadius
\* returns the limit nearest of them; when at least one eligible driver lies within
\* the radius, the result is not empty
C22_LimitNearest ==
    (last.op = "FindWithinRadius" /\ last.query.status = UNDEF)
    => LET q == last.query
           radiusKm == OrDefault(q.radius, DefaultRadiusKm)
           take == OrDefault(q.limit, DefaultLimit)
           r == last.result
           within == {d \in EligibleDrivers(drivers) :
                         calculateDistance(q.pos, drivers[d].pos) <= radiusKm * 1000}
           returned == {r[i].id : i \in DOMAIN r}
       IN  /\ Cardinality(within) > take
                => /\ Len(r) = take
                   /\ returned \subseteq within
                   /\ \A d \in returned, e \in within \ returned :
                         calculateDistance(q.pos, drivers[d].pos)
                           <= calculateDistance(q.pos, drivers[e].pos)
           /\ within # {} => r # <<>>

\* the coordinate of the i-th stop of the sequence an optimizePickupRoute returned
PlacedAt(i) ==
    BinPos[pickups[last.result.pickups[i].pickupId].binId]

\* the position before the i-th stop: the start coordinate of the call, then the
\* stop before
PlacedFrom(i) ==
    IF i > 1 THEN PlacedAt(i - 1)
    ELSE IF last.query.start # <<>> THEN last.query.start[1]
    ELSE IF drivers[last.query.driverId].located THEN drivers[last.query.driverId].pos
    ELSE DefaultStart

\* C23: in the sequence of the nearest-neighbor fallback every stop is at the least
\* distance from the position before it among the stops not yet placed, and among
\* equally near stops it is the earliest of the input
C23_GreedyNearest ==
    (OptimizeServed /\ last.result.path = "fallback")
    => \A i, j \in DOMAIN last.result.pickups :
          i < j
          => \/ calculateDistance(PlacedFrom(i), PlacedAt(i))
                  < calculateDistance(PlacedFrom(i), PlacedAt(j))
             \/ /\ calculateDistance(PlacedFrom(i), PlacedAt(i))
                     = calculateDistance(PlacedFrom(i), PlacedAt(j))
                /\ last.result.pickups[i].pickupId < last.result.pickups[j].pickupId

\* the fallback placed three stops, the first out of input order, and chose between
\* two equally near stops
C23_Witness ==
    /\ OptimizeServed /\ last.result.path = "fallback"
    /\ Len(last.result.pickups) = 3
    /\ last.result.pickups[1].pickupId # 1
    /\ \E i, j \in DOMAIN last.result.pickups :
          /\ i < j
          /\ calculateDistance(PlacedFrom(i), PlacedAt(i))
                = calculateDistance(PlacedFrom(i), PlacedAt(j))

\* C24: for every fill level of 80 or more, the priority of a pickup the scheduler
\* creates is the priority createPickup derives for that level when no priority is
\* supplied: URGENT from 95, HIGH from 85 to 94, MEDIUM from 80 to 84
C24_AutoPriorityAsCreate ==
    last.op = "AutoCreate"
    => \A i \in DOMAIN last.created :
          LET level == bins[last.created[i].binId].currentLevel
          IN  (last.created[i].err = "OK" /\ level >= 80)
              => last.created[i].priority
                   = IF level >= 95 THEN "URGENT"
                     ELSE IF level >= 85 THEN "HIGH"
                     ELSE "MEDIUM"

\* C25: in each of the scheduler's loops a failure on one bin or pickup does not end
\* the run: every other bin or pickup the scan found is still processed (a pickup is
\* created for the bin, the pickup is escalated, the driver with a phone number is
\* reminded)
C25_BatchContinues ==
    [][/\ last'.op = "AutoCreate"
          => \A i \in DOMAIN last'.created :
                last'.created[i].err = "OK"
                => \E p \in autoRun'.created :
                      pickups'[p].binId = last'.created[i].binId
       /\ last'.op = "OverdueScan"
          => \A id \in DOMAIN pickups :
                (/\ pickups[id].status = "SCHEDULED"
                 /\ pickups[id].driverId # NULL
                 /\ pickups[id].scheduledAt < now - 30
                 /\ id \notin last'.failing)
                => pickups'[id].priority = "URGENT"
       /\ last'.op = "ReminderScan"
          => \A id \in DOMAIN pickups :
                (/\ pickups[id].status = "SCHEDULED"
                 /\ pickups[id].driverId # NULL
                 /\ pickups[id].scheduledAt >= now
                 /\ pickups[id].scheduledAt <= now + 15
                 /\ drivers[pickups[id].driverId].phone)
                => \E i \in DOMAIN notices' : notices'[i].pickupId = id]_vars

\* C26: optimizePickupRoute changes the driver only of pickups that are stops of the
\* route it creates: a pickup that is not SCHEDULED, named in pickupIds or not,
\* refers to the driver it referred to before the call
C26_OnlyRoutePickupsReassigned ==
    OptimizeServed
    => \A id \in DOMAIN pickups :
          pickups[id].status # "SCHEDULED" => pickups[id].driverId = last.prev[id]

\* C28: createPickup never lowers a supplied priority: in the order LOW < MEDIUM <
\* HIGH < URGENT the priority of the created pickup is at least the supplied one, at
\* every fill level
C28_PriorityNotLowered ==
    (last.op = "Create" /\ last.err = "OK" /\ last.arg # UNDEF)
    => LET rank == [p \in Priorities |->
                       IF p = "LOW" THEN 1 ELSE IF p = "MEDIUM" THEN 2
                       ELSE IF p = "HIGH" THEN 3 ELSE 4]
       IN  rank[last.priority] >= rank[last.arg]

\* C29: the priority of a pickup survives from the write to the read: a read by id
\* or a listing that follows a createPickup reports the priority that call derived,
\* and a pickup whose stored priority is URGENT is reported as URGENT
C29_PriorityRoundTrip ==
    [][/\ (last'.op = "GetById" /\ last'.err = "OK")
          => LET id == last'.query.pickupId
             IN  /\ (last.op = "Create" /\ last.err = "OK" /\ last.pid = id)
                       => last'.result.priority = last.priority
                 /\ pickups[id].priority = "URGENT"
                       => last'.result.priority = "URGENT"
       /\ last'.op = "List"
          => \A i \in DOMAIN last'.result :
                LET id == last'.result[i].id
                IN  /\ (last.op = "Create" /\ last.err = "OK" /\ last.pid = id)
                          => last'.result[i].priority = last.priority
                    /\ pickups[id].priority = "URGENT"
                          => last'.result[i].priority = "URGENT"]_vars

\* C27: when a cancellation and a completion of one pickup run together, no
\* interleaving ends with the pickup CANCELLED while it carries a completion time and
\* its bin has been emptied by that completion
C27_CancelOrComplete ==
    calls = <<>>
    => \A p \in DOMAIN pickups :
          ~ /\ pickups[p].status = "CANCELLED"
            /\ pickups[p].completedAt # NoTime
            /\ bins[pickups[p].binId].lastEmptied = pickups[p].completedAt

\* C30: when the last open stops of a route are completed by concurrent
\* updateRouteProgress calls, then once the calls have returned with every stop
\* COMPLETED the route is COMPLETED, in every interleaving of their store accesses
C30_ConcurrentCompletion ==
    (/\ Len(calls) >= 2
     /\ \A c \in DOMAIN calls : calls[c].pc = "done"
     /\ \A i \in StopsOf(stops, 1) : stops[i].status = "COMPLETED")
    => (routes[1].status = "COMPLETED" /\ routes[1].completedAt # NoTime)

\* two calls completed the last two open stops and have returned; one of them read
\* the route while the other stop was still open
C30_Witness ==
    /\ Len(calls) = 2
    /\ \A c \in DOMAIN calls : calls[c].pc = "done"
    /\ \E c \in DOMAIN calls : ~calls[c].sawAll
    /\ \A i \in StopsOf(stops, 1) : stops[i].status = "COMPLETED"
    /\ routes[1].status = "COMPLETED"

\* C21: an optimizePickupRoute that has sent its request to the directions service
\* eventually returns, whether or not the service ever answers
C21_OptimizeReturns ==
    (calls # <<>>) ~> (last.op = "Optimize")

====
